---- MODULE Spec2Model ----
(***************************************************************************)
(* Model of DataExtractor (src/src/data_extractor.cpp): the loader of the  *)
(* UTIAS multi-robot dataset.                                              *)
(*                                                                         *)
(* A file either cannot be opened (NoFile) or holds the sequence of its     *)
(* data rows in file order: comment lines are skipped by every loader and  *)
(* each row is the tuple of numbers std::stoi / std::stod extract from it. *)
(* Rows are well formed; the exceptions std::stoi, std::stod and           *)
(* std::string::substr raise on a malformed row are outside the model.     *)
(* Times are integers in ticks of 0.01 s, so that 0.05 s is 5 ticks and    *)
(* the window comparison of readMeasurements is exact.                     *)
(***************************************************************************)
EXTENDS Integers, Sequences, FiniteSets, TLC

(***************************************************************************)
(* Sizes.  The three capacities are the program's constants of the same    *)
(* name (declared in include/data_extractor.h), scaled down.               *)
(***************************************************************************)
TOTAL_BARCODES == 2
TOTAL_LANDMARKS == 2
TOTAL_ROBOTS == 2
\* Rows read from one measurement file in SpecMeasure.
MaxRows == 3
\* 0.05 s, the half width of the aggregation window, in ticks.
Window == 5

\* A file that cannot be opened, and a file holding the data rows `rows'.
NoFile == [open |-> FALSE, rows |-> <<>>]

File(rows) == [open |-> TRUE, rows |-> rows]

Robots == 0 .. (TOTAL_ROBOTS - 1)

BarcodeSlots == 0 .. (TOTAL_BARCODES - 1)

LandmarkSlots == 0 .. (TOTAL_LANDMARKS - 1)

VARIABLES
    dataset_,     \* std::string dataset_
    barcodes_,    \* int barcodes_[TOTAL_BARCODES]
    landmarks_,   \* Landmark landmarks_[TOTAL_LANDMARKS]
    robots_,      \* Robot robots_[TOTAL_ROBOTS], the raw sequences of each
    outcome,      \* how the last call ended, as its caller sees it
    lastCall,     \* the last call: its name, its arguments, the files it read
    stepResult,   \* what each sub-loader returned in the last setDataSet
    loaded,       \* some setDataSet call has completed successfully
    writes,       \* positions of barcodes_ written by the last readBarcodes
    probes,       \* positions of barcodes_ read by the last readLandmarks
    registered,   \* slots of landmarks_ a readLandmarks has filled so far
    streak,       \* consecutive identical sub-loader calls, counted to 2
    pc,           \* "idle", or "reading" inside readMeasurements' loop
    consumed      \* rows readMeasurements has taken from its file so far

vars == <<dataset_, barcodes_, landmarks_, robots_, outcome, lastCall, stepResult,
          loaded, writes, probes, registered, streak, pc, consumed>>

(***************************************************************************)
(* The file system.                                                        *)
(***************************************************************************)
Paths == {"", "nowhere", "utias"}

ExistingPaths == {"utias"}

\* A location test that never fails.
PathExistsAlways(path) == TRUE

\* stat(directory, &sb) == 0
PathExists(path) == path \in ExistingPaths

(***************************************************************************)
(* readBarcodes                                                            *)
(***************************************************************************)
\* A capacity test that lets one row too many through.
BarcodeCapacityOffByOne(i) == i > TOTAL_BARCODES

\* if (i >= TOTAL_BARCODES) return false;
BarcodeCapacityReached(i) == i >= TOTAL_BARCODES

\* barcodes_[i] = value; a write past the array changes no entry of it.
StoreBarcode(table, i, value) ==
    IF i \in DOMAIN table THEN [table EXCEPT ![i] = value] ELSE table

RECURSIVE BarcodesLoop(_, _, _, _)
BarcodesLoop(table, rows, i, written) ==
    IF rows = <<>>
    THEN [ok |-> TRUE, barcodes |-> table, writes |-> written]
    ELSE IF BarcodeCapacityReached(i)
         THEN [ok |-> FALSE, barcodes |-> table, writes |-> written]
         ELSE BarcodesLoop(StoreBarcode(table, i, Head(rows)), Tail(rows),
                           i + 1, written \cup {i})

ReadBarcodes(stored, table, file) ==
    IF stored = "" \/ ~file.open
    THEN [ok |-> FALSE, barcodes |-> table, writes |-> {}]
    ELSE BarcodesLoop(table, file.rows, 0, {})

(***************************************************************************)
(* readLandmarks.  A read of barcodes_ outside 0 .. TOTAL_BARCODES-1 is    *)
(* undefined behaviour: it yields `stray', any of StrayValues.             *)
(***************************************************************************)
StrayValues == {0, 77}

LandmarkRow(id) == [id |-> id, x |-> 20, y |-> 30, x_std_dev |-> 1, y_std_dev |-> 1]

\* The members' values before any load (their declarations are in the
\* header): a barcode of 0 stands for "not loaded".
EmptyLandmark == [id |-> 0, barcode |-> 0, x |-> 0, y |-> 0, x_std_dev |-> 0, y_std_dev |-> 0]

UnsetBarcodes == [i \in BarcodeSlots |-> 0]

\* barcodes_[landmarks_[i].id - 1]
BarcodeAt(table, index, stray) ==
    IF index \in DOMAIN table THEN table[index] ELSE stray

\* An integrity test that accepts every value.
IntegrityUnchecked(value) == FALSE

\* if (barcodes_[landmarks_[i].id - 1] == 0) return false;
BarcodeUnset(value) == value = 0

\* The loop body of readLandmarks for one row, i rows having been stored.
LandmarkStep(table, lms, i, row, stray) ==
    IF i >= TOTAL_LANDMARKS
    THEN [ok |-> FALSE, landmarks |-> lms, probes |-> {}, filled |-> {}]
    ELSE LET index == row.id - 1
             value == BarcodeAt(table, index, stray)
             withId == [lms EXCEPT ![i].id = row.id]
         IN  IF BarcodeUnset(value)
             THEN [ok |-> FALSE, landmarks |-> withId, probes |-> {index}, filled |-> {}]
             ELSE [ok |-> TRUE,
                   landmarks |-> [withId EXCEPT ![i].barcode = value,
                                                ![i].x = row.x,
                                                ![i].y = row.y,
                                                ![i].x_std_dev = row.x_std_dev,
                                                ![i].y_std_dev = row.y_std_dev],
                   probes |-> {index}, filled |-> {i}]

\* while (std::getline(file, line)) { ... }
RECURSIVE LandmarksLoop(_, _, _, _, _, _, _)
LandmarksLoop(table, lms, rows, i, probed, filled, stray) ==
    IF rows = <<>>
    THEN [ok |-> TRUE, landmarks |-> lms, probes |-> probed, filled |-> filled]
    ELSE LET s == LandmarkStep(table, lms, i, Head(rows), stray)
         IN  IF ~s.ok
             THEN [ok |-> FALSE, landmarks |-> s.landmarks,
                   probes |-> probed \cup s.probes, filled |-> filled]
             ELSE LandmarksLoop(table, s.landmarks, Tail(rows), i + 1,
                                probed \cup s.probes, filled \cup s.filled, stray)

ReadLandmarks(table, lms, file, stray) ==
    IF ~file.open
    THEN [ok |-> FALSE, landmarks |-> lms, probes |-> {}, filled |-> {}]
    ELSE LandmarksLoop(table, lms, file.rows, 0, {}, {}, stray)

(***************************************************************************)
(* readGroundTruth and readOdometry                                        *)
(***************************************************************************)
\* robots_[robot_id].raw.ground_truth.clear();
ClearGroundTruth(seq) == <<>>

RECURSIVE PushBackAll(_, _)
PushBackAll(seq, rows) ==
    IF rows = <<>> THEN seq ELSE PushBackAll(Append(seq, Head(rows)), Tail(rows))

ReadGroundTruth(seq, file) ==
    IF ~file.open
    THEN [ok |-> FALSE, seq |-> ClearGroundTruth(seq)]
    ELSE [ok |-> TRUE, seq |-> PushBackAll(ClearGroundTruth(seq), file.rows)]

\* robots_[robot_id].raw.odometry.clear();
ClearOdometry(seq) == <<>>

ReadOdometry(seq, file) ==
    IF ~file.open
    THEN [ok |-> FALSE, seq |-> ClearOdometry(seq)]
    ELSE [ok |-> TRUE, seq |-> PushBackAll(ClearOdometry(seq), file.rows)]

(***************************************************************************)
(* readMeasurements                                                        *)
(***************************************************************************)
\* A sub-loader that appends to what the sequence holds.
KeepMeasurements(seq) == seq

\* robots_[robot_id].raw.measurements.clear();
ClearMeasurements(seq) == <<>>

\* A window without its two end points.
InWindowExclusive(record, time) ==
    record.time > time - Window /\ record.time < time + Window

\* The predicate of std::find_if.
InWindow(record, time) ==
    record.time >= time - Window /\ record.time <= time + Window

\* Measurement(time, subject, range, bearing)
Measurement(row) ==
    [time |-> row.time, subjects |-> <<row.subject>>,
     ranges |-> <<row.range>>, bearings |-> <<row.bearing>>]

\* The last match from position k on, where std::find_if gives the first.
RECURSIVE FindLast(_, _, _)
FindLast(seq, time, k) ==
    IF k > Len(seq) THEN k
    ELSE LET later == FindLast(seq, time, k + 1)
         IN  IF later <= Len(seq) THEN later
             ELSE IF InWindow(seq[k], time) THEN k ELSE later

\* std::find_if from position k: the first match, or Len(seq) + 1 for end().
RECURSIVE FindIf(_, _, _)
FindIf(seq, time, k) ==
    IF k > Len(seq) THEN k
    ELSE IF InWindow(seq[k], time) THEN k
         ELSE FindIf(seq, time, k + 1)

\* iterator->subjects.push_back(subject); ranges, bearings likewise.
PushBackReading(record, row) ==
    [record EXCEPT !.subjects = Append(@, row.subject),
                   !.ranges = Append(@, row.range),
                   !.bearings = Append(@, row.bearing)]

\* What the loop body does with one parsed row.
AggregateRow(seq, row) ==
    LET iterator == FindIf(seq, row.time, 1)
    IN  IF iterator /= Len(seq) + 1
        THEN [seq EXCEPT ![iterator] = PushBackReading(@, row)]
        ELSE Append(seq, Measurement(row))

RECURSIVE MeasurementsLoop(_, _)
MeasurementsLoop(seq, rows) ==
    IF rows = <<>> THEN seq
    ELSE MeasurementsLoop(AggregateRow(seq, Head(rows)), Tail(rows))

ReadMeasurements(seq, file) ==
    IF ~file.open
    THEN [ok |-> FALSE, seq |-> ClearMeasurements(seq)]
    ELSE [ok |-> TRUE, seq |-> MeasurementsLoop(ClearMeasurements(seq), file.rows)]

(***************************************************************************)
(* setDataSet                                                              *)
(***************************************************************************)
\* flag &= result
AndAssign(flag, result) == flag /\ result

RobotsDone(i) == ~(i < TOTAL_ROBOTS)

\* for (int i = 0; i < TOTAL_ROBOTS; i++) { ... }
RECURSIVE RobotsLoop(_, _, _, _, _)
RobotsLoop(i, robots, flags, returned, files) ==
    IF RobotsDone(i)
    THEN [robots |-> robots, flags |-> flags, returned |-> returned]
    ELSE LET g == ReadGroundTruth(robots[i].ground_truth, files.groundtruth[i])
             o == ReadOdometry(robots[i].odometry, files.odometry[i])
             m == ReadMeasurements(robots[i].measurements, files.measurement[i])
         IN  RobotsLoop(i + 1,
                 [robots EXCEPT ![i] = [ground_truth |-> g.seq,
                                        odometry |-> o.seq,
                                        measurements |-> m.seq]],
                 [groundtruth |-> AndAssign(flags.groundtruth, g.ok),
                  odometry |-> AndAssign(flags.odometry, o.ok),
                  measurement |-> AndAssign(flags.measurement, m.ok)],
                 [returned EXCEPT !.groundtruth[i] = g.ok,
                                  !.odometry[i] = o.ok,
                                  !.measurement[i] = m.ok],
                 files)

\* A conjunction that leaves measurement_correct out.
ExtractionIgnoringMeasurements(b, l, g, o, m) == b /\ l /\ g /\ o

\* barcodes_correct & landmarks_correct & groundtruth_correct & ...
SuccessfulExtraction(b, l, g, o, m) == b /\ l /\ g /\ o /\ m

\* No sub-loader has run.
NotRun ==
    [barcodes |-> "notrun", landmarks |-> "notrun",
     groundtruth |-> [r \in Robots |-> "notrun"],
     odometry |-> [r \in Robots |-> "notrun"],
     measurement |-> [r \in Robots |-> "notrun"]]

Told(ok) == IF ok THEN "true" ELSE "false"

NoCall == [op |-> "none", path |-> "", robot |-> 0, files |-> <<>>]

\* setDataSet(path) on a directory holding `files'; `stray' is what a read
\* outside the barcode table yields, should readLandmarks make one.
SetDataSet(path, files, stray) ==
    /\ pc = "idle"
    /\ lastCall' = [op |-> "setDataSet", path |-> path, robot |-> 0,
                    files |-> IF PathExists(path) THEN <<files>> ELSE <<>>]
    /\ streak' = 0
    /\ UNCHANGED <<pc, consumed>>
    /\ IF ~PathExists(path)
       THEN /\ outcome' = "PathNotFound"
            /\ stepResult' = NotRun
            /\ UNCHANGED <<dataset_, barcodes_, landmarks_, robots_, loaded,
                           writes, probes, registered>>
       ELSE \E b \in {ReadBarcodes(path, barcodes_, files.barcodes)} :
            \E l \in {ReadLandmarks(b.barcodes, landmarks_, files.landmarks, stray)} :
            \E r \in {RobotsLoop(0, robots_,
                          [groundtruth |-> TRUE, odometry |-> TRUE, measurement |-> TRUE],
                          [groundtruth |-> [i \in Robots |-> FALSE],
                           odometry |-> [i \in Robots |-> FALSE],
                           measurement |-> [i \in Robots |-> FALSE]],
                          files)} :
            \E successful_extraction \in
                   {SuccessfulExtraction(b.ok, l.ok, r.flags.groundtruth,
                                         r.flags.odometry, r.flags.measurement)} :
                /\ dataset_' = path
                /\ barcodes_' = b.barcodes
                /\ landmarks_' = l.landmarks
                /\ robots_' = r.robots
                /\ writes' = b.writes
                /\ probes' = l.probes
                /\ registered' = registered \cup l.filled
                /\ stepResult' =
                       [barcodes |-> Told(b.ok), landmarks |-> Told(l.ok),
                        groundtruth |-> [i \in Robots |-> Told(r.returned.groundtruth[i])],
                        odometry |-> [i \in Robots |-> Told(r.returned.odometry[i])],
                        measurement |-> [i \in Robots |-> Told(r.returned.measurement[i])]]
                /\ outcome' = IF successful_extraction THEN "returned" ELSE "LoadError"
                /\ loaded' = (loaded \/ successful_extraction)

(***************************************************************************)
(* The accessors                                                           *)
(***************************************************************************)
\* if ("" == this->dataset_) throw std::runtime_error(...);
Unspecified(stored) == stored = ""

Accessor(name) ==
    /\ pc = "idle"
    /\ lastCall' = [op |-> name, path |-> "", robot |-> 0, files |-> <<>>]
    /\ outcome' = IF Unspecified(dataset_) THEN "UninitializedAccess" ELSE "returned"
    /\ streak' = 0
    /\ UNCHANGED <<dataset_, barcodes_, landmarks_, robots_, stepResult, loaded,
                   writes, probes, registered, pc, consumed>>

GetBarcodes == Accessor("getBarcodes")

GetLandmarks == Accessor("getLandmarks")

GetRobots == Accessor("getRobots")

(***************************************************************************)
(* The state after DataExtractor::DataExtractor()                          *)
(***************************************************************************)
Init ==
    /\ dataset_ = ""
    /\ barcodes_ = UnsetBarcodes
    /\ landmarks_ = [i \in LandmarkSlots |-> EmptyLandmark]
    /\ robots_ = [r \in Robots |->
                    [ground_truth |-> <<>>, odometry |-> <<>>, measurements |-> <<>>]]
    /\ outcome = "none"
    /\ lastCall = NoCall
    /\ stepResult = NotRun
    /\ loaded = FALSE
    /\ writes = {}
    /\ probes = {}
    /\ registered = {}
    /\ streak = 0
    /\ pc = "idle"
    /\ consumed = <<>>

(***************************************************************************)
(* Input files.                                                            *)
(***************************************************************************)
Min(a, b) == IF a < b THEN a ELSE b

AscendingBarcodes(n) == [k \in 1 .. n |-> 10 * k]

DescendingBarcodes(n) == [k \in 1 .. n |-> 10 * (n + 1 - k)]

\* Landmark rows with the ids 1, 2, ... that both tables have room for.
LandmarksInOrder == [k \in 1 .. Min(TOTAL_BARCODES, TOTAL_LANDMARKS) |-> LandmarkRow(k)]

MeasurementRow(time, subject) ==
    [time |-> time, subject |-> subject, range |-> 10 * subject, bearing |-> 0 - subject]

GroundTruthFile == File(<<[time |-> 1000, x |-> 1, y |-> 2, orientation |-> 3]>>)

OdometryFile ==
    File(<<[time |-> 1000, forward_velocity |-> 1, angular_velocity |-> 0],
           [time |-> 1002, forward_velocity |-> 1, angular_velocity |-> 1]>>)

MeasurementFile ==
    File(<<MeasurementRow(1000, 1), MeasurementRow(1003, 2), MeasurementRow(1020, 3)>>)

RobotKinds == {"groundtruth", "odometry", "measurement"}

\* The files of all robots, with those of `missing' (pairs <<kind, robot>>) absent.
RobotFiles(missing) ==
    [groundtruth |-> [r \in Robots |->
         IF <<"groundtruth", r>> \in missing THEN NoFile ELSE GroundTruthFile],
     odometry |-> [r \in Robots |->
         IF <<"odometry", r>> \in missing THEN NoFile ELSE OdometryFile],
     measurement |-> [r \in Robots |->
         IF <<"measurement", r>> \in missing THEN NoFile ELSE MeasurementFile]]

Dataset(b, l, rf) ==
    [barcodes |-> b, landmarks |-> l, groundtruth |-> rf.groundtruth,
     odometry |-> rf.odometry, measurement |-> rf.measurement]

(***************************************************************************)
(* Spec: the life of one extractor.  Every file of the dataset is either   *)
(* missing or well formed, with at most one robot file missing, or all.    *)
(***************************************************************************)
LifecycleMissing ==
    {{}} \cup {{<<k, r>>} : k \in RobotKinds, r \in Robots} \cup {RobotKinds \X Robots}

LifecycleFiles ==
    {Dataset(b, l, RobotFiles(m)) :
        b \in {NoFile, File(AscendingBarcodes(TOTAL_BARCODES))},
        l \in {NoFile, File(LandmarksInOrder)},
        m \in LifecycleMissing}

Next ==
    \/ \E path \in Paths, files \in LifecycleFiles : SetDataSet(path, files, 0)
    \/ GetBarcodes
    \/ GetLandmarks
    \/ GetRobots

Spec == Init /\ [][Next]_vars

Accessors == {"getBarcodes", "getLandmarks", "getRobots"}

\* C1: getBarcodes, getLandmarks and getRobots each fail with
\* UninitializedAccess whenever no setDataSet call has completed successfully
\* before them, a call that ended in a load error included.
AccessorsFailBeforeSuccessfulLoad ==
    (lastCall.op \in Accessors /\ ~loaded) => outcome = "UninitializedAccess"

\* What the sub-loaders of the last setDataSet returned.
StepResults ==
    {stepResult.barcodes, stepResult.landmarks}
        \cup {stepResult.groundtruth[r] : r \in Robots}
        \cup {stepResult.odometry[r] : r \in Robots}
        \cup {stepResult.measurement[r] : r \in Robots}

\* C2: on an existing dataset location setDataSet raises the load error if and
\* only if some sub-loader (readBarcodes, readLandmarks, or readGroundTruth,
\* readOdometry, readMeasurements of some robot) returned false, and returns
\* normally exactly when every one of them returned true.
LoadErrorIffSomeStepFailed ==
    (lastCall.op = "setDataSet" /\ lastCall.path \in ExistingPaths) =>
        /\ (outcome = "LoadError") <=> ("false" \in StepResults)
        /\ (outcome = "returned") <=> (StepResults = {"true"})

\* C2's case: only readMeasurements of the last robot failed, and the load failed.
OnlyLastMeasurementFailed ==
    /\ lastCall.op = "setDataSet"
    /\ outcome = "LoadError"
    /\ stepResult.measurement[TOTAL_ROBOTS - 1] = "false"
    /\ stepResult.barcodes = "true" /\ stepResult.landmarks = "true"
    /\ \A r \in Robots : /\ stepResult.groundtruth[r] = "true"
                         /\ stepResult.odometry[r] = "true"
                         /\ (r /= TOTAL_ROBOTS - 1 => stepResult.measurement[r] = "true")

\* C7: setDataSet on a location that does not exist fails with PathNotFound,
\* runs no sub-loader and leaves the stored path, the barcode table, the
\* landmark registry and every robot sequence as they were.
PathNotFoundChangesNothing ==
    [][(lastCall'.op = "setDataSet" /\ lastCall'.path \notin ExistingPaths) =>
          /\ outcome' = "PathNotFound"
          /\ stepResult' = NotRun
          /\ UNCHANGED <<dataset_, barcodes_, landmarks_, robots_>>]_vars

\* C7's case: the location is missing after an earlier load has succeeded.
PathNotFoundAfterSuccessfulLoad ==
    /\ lastCall.op = "setDataSet"
    /\ lastCall.path = "nowhere"
    /\ outcome = "PathNotFound"
    /\ loaded
    /\ dataset_ = "utias"
    /\ \A r \in Robots : robots_[r].measurements /= <<>>

(***************************************************************************)
(* SpecReload: one extractor loading one dataset after another, all with   *)
(* landmark ids inside the barcode table.                                  *)
(***************************************************************************)
ReloadFiles ==
    {Dataset(b, l, RobotFiles({})) :
        b \in {NoFile, File(AscendingBarcodes(TOTAL_BARCODES)),
               File(DescendingBarcodes(TOTAL_BARCODES))},
        l \in {NoFile, File(<<LandmarkRow(1)>>), File(LandmarksInOrder)}}

Reload == \E files \in ReloadFiles : SetDataSet("utias", files, 0)

NextReload == Reload \/ GetLandmarks

SpecReload == Init /\ [][NextReload]_vars

\* C5: after setDataSet has completed successfully, every landmark held in
\* the registry has a nonzero barcode, equal to the barcode table's entry at
\* position id - 1.
LandmarkBarcodesMatchTable ==
    (lastCall.op = "setDataSet" /\ outcome = "returned") =>
        \A s \in registered :
            /\ landmarks_[s].barcode /= 0
            /\ landmarks_[s].id - 1 \in BarcodeSlots
            /\ landmarks_[s].barcode = barcodes_[landmarks_[s].id - 1]

(***************************************************************************)
(* SpecBarcodes: datasets whose barcode file holds any rows, one more than *)
(* the table has room for included.                                        *)
(***************************************************************************)
BarcodeValues == {0, 10, 20}

Seqs(S, n) == UNION {[1 .. k -> S] : k \in 0 .. n}

BarcodeStudyFiles ==
    {Dataset(b, l, RobotFiles({})) :
        b \in {NoFile} \cup {File(rows) : rows \in Seqs(BarcodeValues, TOTAL_BARCODES + 1)},
        l \in {File(<<LandmarkRow(1)>>)}}

LoadBarcodes == \E files \in BarcodeStudyFiles : SetDataSet("utias", files, 0)

NextBarcodes == LoadBarcodes \/ GetBarcodes

SpecBarcodes == Init /\ [][NextBarcodes]_vars

\* C8: a barcode source with more rows than TOTAL_BARCODES makes readBarcodes
\* return false and the load fail, and no position past the table's last is
\* written; a source with at most TOTAL_BARCODES rows is accepted and its
\* values are stored in file order at positions 0, 1, 2, ...
BarcodeCapacity ==
    (lastCall.op = "setDataSet" /\ lastCall.files /= <<>>
        /\ lastCall.files[1].barcodes.open) =>
        LET rows == lastCall.files[1].barcodes.rows
        IN  /\ writes \subseteq BarcodeSlots
            /\ Len(rows) > TOTAL_BARCODES =>
                   (stepResult.barcodes = "false" /\ outcome = "LoadError")
            /\ Len(rows) <= TOTAL_BARCODES =>
                   /\ stepResult.barcodes = "true"
                   /\ \A k \in 1 .. Len(rows) : barcodes_[k - 1] = rows[k]

\* C8's case: a source one row too long has filled the table and been rejected.
BarcodeSourceTooLong ==
    /\ lastCall.op = "setDataSet" /\ lastCall.files /= <<>>
    /\ lastCall.files[1].barcodes.open
    /\ Len(lastCall.files[1].barcodes.rows) > TOTAL_BARCODES
    /\ writes = BarcodeSlots
    /\ outcome = "LoadError"

(***************************************************************************)
(* The sub-loaders called on their own, and readLandmarks and              *)
(* readMeasurements taken one row at a time: the file is revealed row by   *)
(* row, as std::getline reads it, and `consumed' holds the rows so far.    *)
(***************************************************************************)
SubLoaders == {"readGroundTruth", "readOdometry", "readMeasurements"}

Repeated(call) == IF call = lastCall THEN 2 ELSE 1

CallReadGroundTruth(r, file) ==
    /\ pc = "idle"
    /\ \E res \in {ReadGroundTruth(robots_[r].ground_truth, file)} :
           /\ robots_' = [robots_ EXCEPT ![r].ground_truth = res.seq]
           /\ outcome' = Told(res.ok)
    /\ lastCall' = [op |-> "readGroundTruth", path |-> "", robot |-> r, files |-> <<file>>]
    /\ streak' = Repeated(lastCall')
    /\ UNCHANGED <<dataset_, barcodes_, landmarks_, stepResult, loaded, writes,
                   probes, registered, pc, consumed>>

CallReadOdometry(r, file) ==
    /\ pc = "idle"
    /\ \E res \in {ReadOdometry(robots_[r].odometry, file)} :
           /\ robots_' = [robots_ EXCEPT ![r].odometry = res.seq]
           /\ outcome' = Told(res.ok)
    /\ lastCall' = [op |-> "readOdometry", path |-> "", robot |-> r, files |-> <<file>>]
    /\ streak' = Repeated(lastCall')
    /\ UNCHANGED <<dataset_, barcodes_, landmarks_, stepResult, loaded, writes,
                   probes, registered, pc, consumed>>

CallReadMeasurements(r, file) ==
    /\ pc = "idle"
    /\ \E res \in {ReadMeasurements(robots_[r].measurements, file)} :
           /\ robots_' = [robots_ EXCEPT ![r].measurements = res.seq]
           /\ outcome' = Told(res.ok)
    /\ lastCall' = [op |-> "readMeasurements", path |-> "", robot |-> r, files |-> <<file>>]
    /\ streak' = Repeated(lastCall')
    /\ UNCHANGED <<dataset_, barcodes_, landmarks_, stepResult, loaded, writes,
                   probes, registered, pc, consumed>>

\* readMeasurements up to its loop: the clear, and the file opened or not.
MeasurementsOpen(r, open) ==
    /\ pc = "idle"
    /\ robots_' = [robots_ EXCEPT ![r].measurements = ClearMeasurements(@)]
    /\ lastCall' = [op |-> "readMeasurements", path |-> "", robot |-> r, files |-> <<>>]
    /\ consumed' = <<>>
    /\ pc' = IF open THEN "measurements" ELSE "idle"
    /\ outcome' = IF open THEN "reading" ELSE "false"
    /\ streak' = 0
    /\ UNCHANGED <<dataset_, barcodes_, landmarks_, stepResult, loaded, writes,
                   probes, registered>>

\* One pass of readMeasurements' loop, std::getline having read `row'.
MeasurementsRow(row) ==
    /\ pc = "measurements"
    /\ Len(consumed) < MaxRows
    /\ robots_' = [robots_ EXCEPT ![lastCall.robot].measurements = AggregateRow(@, row)]
    /\ consumed' = Append(consumed, row)
    /\ UNCHANGED <<dataset_, barcodes_, landmarks_, outcome, lastCall, stepResult,
                   loaded, writes, probes, registered, streak, pc>>

\* std::getline finds the end of the file: readMeasurements returns true.
MeasurementsEnd ==
    /\ pc = "measurements"
    /\ pc' = "idle"
    /\ outcome' = "true"
    /\ UNCHANGED <<dataset_, barcodes_, landmarks_, robots_, lastCall, stepResult,
                   loaded, writes, probes, registered, streak, consumed>>

\* readLandmarks up to its loop: the file opened or not.
LandmarksOpen(open) ==
    /\ pc = "idle"
    /\ lastCall' = [op |-> "readLandmarks", path |-> "", robot |-> 0, files |-> <<>>]
    /\ consumed' = <<>>
    /\ probes' = {}
    /\ pc' = IF open THEN "landmarks" ELSE "idle"
    /\ outcome' = IF open THEN "reading" ELSE "false"
    /\ streak' = 0
    /\ UNCHANGED <<dataset_, barcodes_, landmarks_, robots_, stepResult, loaded,
                   writes, registered>>

\* One pass of readLandmarks' loop, std::getline having read `row'; i, the
\* number of landmarks stored, is the number of rows taken before this one.
LandmarksRow(row, stray) ==
    /\ pc = "landmarks"
    /\ \E s \in {LandmarkStep(barcodes_, landmarks_, Len(consumed), row, stray)} :
           /\ landmarks_' = s.landmarks
           /\ probes' = probes \cup s.probes
           /\ registered' = registered \cup s.filled
           /\ pc' = IF s.ok THEN "landmarks" ELSE "idle"
           /\ outcome' = IF s.ok THEN "reading" ELSE "false"
    /\ consumed' = Append(consumed, row)
    /\ UNCHANGED <<dataset_, barcodes_, robots_, lastCall, stepResult, loaded,
                   writes, streak>>

\* std::getline finds the end of the file: readLandmarks returns true.
LandmarksEnd ==
    /\ pc = "landmarks"
    /\ pc' = "idle"
    /\ outcome' = "true"
    /\ UNCHANGED <<dataset_, barcodes_, landmarks_, robots_, lastCall, stepResult,
                   loaded, writes, probes, registered, streak, consumed>>

(***************************************************************************)
(* SpecLandmarks: readLandmarks, row by row, on a barcode table that is    *)
(* empty, partly filled or full; the ids run from 0 to one past the table. *)
(***************************************************************************)
LandmarkIds == 0 .. (TOTAL_BARCODES + 1)

ProvisionFiles ==
    {Dataset(b, NoFile, RobotFiles({})) :
        b \in {NoFile, File(<<10>>), File(AscendingBarcodes(TOTAL_BARCODES))}}

Provision == \E files \in ProvisionFiles : SetDataSet("utias", files, 0)

NextLandmarks ==
    \/ Provision
    \/ \E open \in BOOLEAN : LandmarksOpen(open)
    \/ \E id \in LandmarkIds, stray \in StrayValues : LandmarksRow(LandmarkRow(id), stray)
    \/ LandmarksEnd

SpecLandmarks == Init /\ [][NextLandmarks]_vars

\* readLandmarks has returned.
ReadLandmarksReturned == lastCall.op = "readLandmarks" /\ pc = "idle"

\* The rows taken whose id lies inside the barcode table and whose entry is 0.
ZeroEntryRows ==
    {k \in 1 .. Len(consumed) :
        /\ consumed[k].id - 1 \in BarcodeSlots
        /\ barcodes_[consumed[k].id - 1] = 0}

Unpopulated == \A i \in BarcodeSlots : barcodes_[i] = 0

\* C6: readLandmarks returns false whenever it is run while the barcode table
\* has not been populated, or whenever some landmark row's table entry at
\* position id - 1 is zero; no landmark of a successful run has barcode 0.
LandmarksNeedBarcodes ==
    ReadLandmarksReturned =>
        /\ (Unpopulated \/ ZeroEntryRows /= {}) => outcome = "false"
        /\ outcome = "true" =>
               \A k \in 1 .. Len(consumed) : landmarks_[k - 1].barcode /= 0

\* C6, amended: readLandmarks returns false whenever some landmark row it
\* takes has an id within 1 .. TOTAL_BARCODES whose table entry at position
\* id - 1 is zero; no landmark of a successful run has barcode 0.
LandmarksNeedTheirBarcode ==
    ReadLandmarksReturned =>
        /\ ZeroEntryRows /= {} => outcome = "false"
        /\ outcome = "true" =>
               \A k \in 1 .. Len(consumed) : landmarks_[k - 1].barcode /= 0

\* C6's case: on a partly filled table, a row with a set barcode has been
\* stored and the next row, whose entry is zero, has failed the run.
ZeroEntryAfterGoodRow ==
    /\ ReadLandmarksReturned
    /\ outcome = "false"
    /\ Len(consumed) = 2
    /\ ZeroEntryRows = {2}
    /\ landmarks_[0].barcode = 10

\* C9: every position id - 1 at which readLandmarks reads the barcode table
\* lies within 0 .. TOTAL_BARCODES - 1.
ProbesInsideTable == probes \subseteq BarcodeSlots

(***************************************************************************)
(* SpecLoader: the three robot sub-loaders called in any order on files    *)
(* that are missing or hold rows.                                          *)
(***************************************************************************)
OtherMeasurementFile == File(<<MeasurementRow(1008, 2), MeasurementRow(1003, 1)>>)

NextLoader ==
    \/ \E r \in Robots, file \in {NoFile, GroundTruthFile} : CallReadGroundTruth(r, file)
    \/ \E r \in Robots, file \in {NoFile, OdometryFile} : CallReadOdometry(r, file)
    \/ \E r \in Robots, file \in {NoFile, MeasurementFile, OtherMeasurementFile} :
           CallReadMeasurements(r, file)

SpecLoader == Init /\ [][NextLoader]_vars

\* C4: calling readGroundTruth, readOdometry or readMeasurements a second
\* time in succession for the same robot on the same file leaves every robot
\* sequence as the first call left it, whatever it held before the first.
ReloadIsIdempotent ==
    [][(lastCall.op \in SubLoaders /\ lastCall' = lastCall) => robots_' = robots_]_vars

\* C4's case: a measurement file read twice in succession over another file's
\* records, with merged readings in the result.
MeasurementsReadTwice ==
    /\ lastCall.op = "readMeasurements"
    /\ streak = 2
    /\ lastCall.files = <<MeasurementFile>>
    /\ Len(robots_[lastCall.robot].measurements) = 2
    /\ Len(robots_[lastCall.robot].measurements[1].subjects) = 2

(***************************************************************************)
(* SpecMeasure: readMeasurements of one robot, row by row, on rows whose    *)
(* times lie 3, 5, 6 and more ticks apart.                                 *)
(***************************************************************************)
MeasureRobots == {0}

MeasureTimes == {1000, 1003, 1008, 1014, 1020}

MeasureSubjects == {1, 2, 3}

MeasureRows == {MeasurementRow(t, subject) : t \in MeasureTimes, subject \in MeasureSubjects}

NextMeasure ==
    \/ \E r \in MeasureRobots, open \in BOOLEAN : MeasurementsOpen(r, open)
    \/ \E row \in MeasureRows : MeasurementsRow(row)
    \/ MeasurementsEnd

SpecMeasure == Init /\ [][NextMeasure]_vars

\* The fold of C3, from the last row back: the records of the rows before
\* it, with the row added to the record of lowest position whose time is
\* within Window of the row's, or as a new last record when there is none.
RECURSIVE Bucketed(_)
Bucketed(rows) ==
    IF rows = <<>> THEN <<>>
    ELSE LET row == rows[Len(rows)]
             before == Bucketed(SubSeq(rows, 1, Len(rows) - 1))
             near == {k \in 1 .. Len(before) :
                         /\ row.time - Window <= before[k].time
                         /\ before[k].time <= row.time + Window}
         IN  IF near = {}
             THEN before \o <<[time |-> row.time, subjects |-> <<row.subject>>,
                               ranges |-> <<row.range>>, bearings |-> <<row.bearing>>]>>
             ELSE LET first == CHOOSE k \in near : \A j \in near : k <= j
                  IN  [k \in 1 .. Len(before) |->
                          IF k = first
                          THEN [time |-> before[k].time,
                                subjects |-> before[k].subjects \o <<row.subject>>,
                                ranges |-> before[k].ranges \o <<row.range>>,
                                bearings |-> before[k].bearings \o <<row.bearing>>]
                          ELSE before[k]]

\* Rows at 10.00, 10.03 and 10.20 s with the subjects 1, 2 and 3.
ExampleRows == <<MeasurementRow(1000, 1), MeasurementRow(1003, 2), MeasurementRow(1020, 3)>>

ExampleRecords ==
    <<[time |-> 1000, subjects |-> <<1, 2>>, ranges |-> <<10, 20>>, bearings |-> <<0 - 1, 0 - 2>>],
      [time |-> 1020, subjects |-> <<3>>, ranges |-> <<30>>, bearings |-> <<0 - 3>>]>>

\* readMeasurements is in its loop or has returned true.
MeasurementsRead ==
    /\ lastCall.op = "readMeasurements"
    /\ lastCall.files = <<>>
    /\ outcome \in {"reading", "true"}

\* C3: the records readMeasurements has built are the fold of the rows taken,
\* in file order: a row joins the first record in insertion order whose time
\* is within 0.05 s of the row's, that record keeping its time, and else
\* becomes a new last record; rows at 10.00, 10.03, 10.20 with subjects
\* 1, 2, 3 give the records (10.00, [1, 2]) and (10.20, [3]).
MeasurementsAreTheFold ==
    MeasurementsRead =>
        /\ robots_[lastCall.robot].measurements = Bucketed(consumed)
        /\ consumed = ExampleRows =>
               robots_[lastCall.robot].measurements = ExampleRecords

\* C3's case: a row within the window of two records has joined the first
\* in insertion order, which is the later in time.
JoinedFirstOfTwo ==
    /\ MeasurementsRead
    /\ outcome = "true"
    /\ Len(consumed) = 3
    /\ consumed[1].time = 1008 /\ consumed[2].time = 1000 /\ consumed[3].time = 1003
    /\ Len(robots_[lastCall.robot].measurements) = 2
    /\ Len(robots_[lastCall.robot].measurements[1].subjects) = 2
    /\ robots_[lastCall.robot].measurements[1].time = 1008

Distance(a, b) == IF a < b THEN b - a ELSE a - b

\* C10: in every state, during readMeasurements and after, any two records
\* of one robot have times more than 0.05 s apart, and the subjects, ranges
\* and bearings of every record are non-empty and of equal length.
RecordsApartAndParallel ==
    \A r \in Robots :
        LET recs == robots_[r].measurements
        IN  /\ \A i, j \in 1 .. Len(recs) :
                   i /= j => Distance(recs[i].time, recs[j].time) > Window
            /\ \A i \in 1 .. Len(recs) :
                   /\ Len(recs[i].subjects) >= 1
                   /\ Len(recs[i].ranges) = Len(recs[i].subjects)
                   /\ Len(recs[i].bearings) = Len(recs[i].subjects)

\* C10's case: inside the loop, two records exactly 0.05 s apart in their
\* first and last rows' times: 10.03 joined 10.00, 10.08 did not.
TwoRecordsMidRead ==
    /\ pc = "measurements"
    /\ Len(consumed) = 3
    /\ consumed[1].time = 1000 /\ consumed[2].time = 1003 /\ consumed[3].time = 1008
    /\ Len(robots_[0].measurements) = 2
    /\ Len(robots_[0].measurements[1].subjects) = 2

====
